---- MODULE Spec2Model ----
(***************************************************************************)
(* State-machine model of the X-Road metrics agent                         *)
(* (src/agente-xroad-metrics.py): the SOAP client XRoadMetricsClient, the  *)
(* local SQLite store of EnhancedXRoadAgent and its monitoring loop.       *)
(***************************************************************************)
EXTENDS Integers, Sequences, FiniteSets, TLC

(***************************************************************************)
(* Bounds of the model.                                                    *)
(***************************************************************************)
\* longest compact identifier string (in characters) the identifier checks draw
MaxIdLen == 4
\* most record elements in one operational response document
MaxRecords == 2
\* most service entries in one health response document
MaxServices == 1
\* most rows the operational_data table grows to
MaxOpRows == 2
\* most rows the health_data table grows to
MaxHealthRows == 2
\* most record elements in the document of a single collection
MaxBatch == 3
\* most rows the service_status table grows to
MaxStatusRows == 3
\* the last second the database clock reaches
MaxClock == 2
\* most service entries in the document of a single health collection
MaxHealthBatch == 2

(***************************************************************************)
(* Python values.  None is a value of its own in every field; a field of   *)
(* integers uses NoneInt, a field of strings uses NoneStr.                 *)
(***************************************************************************)
NoneStr == "<None>"
NoneInt == -1
\* what an element lookup (record.find) gives for a missing element
Absent == "<absent>"
\* the .text of an element that is present and has no text: None
NoText == "<notext>"

(***************************************************************************)
(* Identifiers: a compact identifier is a string, a sequence of characters.*)
(***************************************************************************)
IdChars == {"/", "G"}

RECURSIVE StringsUpTo(_)
StringsUpTo(n) ==
    IF n = 0 THEN {<<>>}
    ELSE LET shorter == StringsUpTo(n - 1)
         IN  shorter \cup {Append(s, c) : s \in {t \in shorter : Len(t) = n - 1}, c \in IdChars}

\* str.split('/'): the segments between separators; "" splits to [""]
RECURSIVE split(_)
split(s) ==
    IF \A i \in 1..Len(s) : s[i] # "/" THEN <<s>>
    ELSE LET k == CHOOSE i \in 1..Len(s) : s[i] = "/" /\ \A j \in 1..(i - 1) : s[j] # "/"
         IN  <<SubSeq(s, 1, k - 1)>> \o split(SubSeq(s, k + 1, Len(s)))

\* s.split('/')[1] and s.split('/')[2] of the request builders: Python indexes
\* from 0, so these are the second and the third segment; IndexError otherwise
MemberOfMut(s) ==
    LET parts == split(s)
    IN  IF Len(parts) >= 2
        THEN [raised |-> FALSE, memberClass |-> parts[1], memberCode |-> parts[2]]
        ELSE [raised |-> TRUE, memberClass |-> <<>>, memberCode |-> <<>>]

MemberOf(s) ==
    LET parts == split(s)
    IN  IF Len(parts) >= 3
        THEN [raised |-> FALSE, memberClass |-> parts[2], memberCode |-> parts[3]]
        ELSE [raised |-> TRUE, memberClass |-> <<>>, memberCode |-> <<>>]

\* an absent client filter (None) and an empty one ("") are both falsy
NoFilter == <<"<", "n", "o", "n", "e", ">">>

Truthy(client_filter) == client_filter # NoFilter /\ client_filter # <<>>

\* _build_operational_data_request: the filter clause is built first, then
\* the envelope header from self.client_id; either split may raise IndexError
BuildOperationalDataRequest(client_id, client_filter) ==
    LET flt == IF Truthy(client_filter) THEN MemberOf(client_filter)
               ELSE [raised |-> FALSE, memberClass |-> <<>>, memberCode |-> <<>>]
        hdr == MemberOf(client_id)
    IN  IF flt.raised \/ hdr.raised
        THEN [raised |-> TRUE, serviceCode |-> "getSecurityServerOperationalData"]
        ELSE [raised |-> FALSE,
              serviceCode |-> "getSecurityServerOperationalData",
              client |-> [memberClass |-> hdr.memberClass, memberCode |-> hdr.memberCode],
              hasFilter |-> Truthy(client_filter),
              filter |-> [memberClass |-> flt.memberClass, memberCode |-> flt.memberCode]]

\* _build_health_data_request: server_id is not used; the header is built
\* from self.client_id
BuildHealthDataRequest(client_id) ==
    LET hdr == MemberOf(client_id)
    IN  IF hdr.raised
        THEN [raised |-> TRUE, serviceCode |-> "getSecurityServerHealthData"]
        ELSE [raised |-> FALSE,
              serviceCode |-> "getSecurityServerHealthData",
              client |-> [memberClass |-> hdr.memberClass, memberCode |-> hdr.memberCode]]

(***************************************************************************)
(* Wire documents.  An element lookup gives Absent for a missing element,  *)
(* NoText for an element without text, and the text otherwise.             *)
(***************************************************************************)
\* the decimal numerals the documents of the model carry, with int(text)
Numerals ==
    {<<"0", 0>>, <<"1", 1>>, <<"3", 3>>, <<"10", 10>>, <<"20", 20>>,
     <<"500", 500>>, <<"900", 900>>, <<"1000", 1000>>, <<"1100", 1100>>,
     <<"1250", 1250>>, <<"1300", 1300>>, <<"2001", 2001>>}

IsNumeral(text) == \E p \in Numerals : p[1] = text

\* int(text): TypeError for None, ValueError for a text that is no numeral
py_int(text) ==
    IF text # NoText /\ IsNumeral(text)
    THEN [raised |-> FALSE, value |-> (CHOOSE p \in Numerals : p[1] = text)[2]]
    ELSE [raised |-> TRUE, value |-> 0]

\* the decimal fractions the documents carry, with float(text) in thousandths
Decimals == {<<"0.0", 0>>, <<"2.5", 2500>>} \cup {<<p[1], p[2] * 1000>> : p \in Numerals}

py_float(text) ==
    IF text # NoText /\ (\E p \in Decimals : p[1] = text)
    THEN [raised |-> FALSE, value |-> (CHOOSE p \in Decimals : p[1] = text)[2]]
    ELSE [raised |-> TRUE, value |-> 0]

\* datetime.fromtimestamp(ms / 1000): a datetime, held as microseconds
fromtimestamp_ms(ms) == ms * 1000

\* the whole numbers of milliseconds d below 4000 for which the float
\* product timedelta(milliseconds=d).total_seconds() * 1000 falls just below
\* d (1.001 * 1000 is 1000.9999999999999 in binary floating point)
FloatBelow == {1001 + 2 * k : k \in 0..11} \cup {2002 + 4 * k : k \in 0..11}

\* int((response_ts - request_ts).total_seconds() * 1000), on datetimes in
\* microseconds: total_seconds() is a float, so is the product, and int()
\* truncates it toward zero.  Exact for the differences below 4000 ms, which
\* are all that the timestamps of Numerals give.
duration_ms(request_ts, response_ts) ==
    LET us == response_ts - request_ts
        ms == IF us >= 0 THEN us \div 1000 ELSE -((-us) \div 1000)
        magnitude == IF ms >= 0 THEN ms ELSE -ms
    IN  IF magnitude \in FloatBelow
        THEN (IF ms >= 0 THEN ms - 1 ELSE ms + 1)
        ELSE ms

\* an m:operationalDataRecord element, by its child elements
OpElement(svc, cli, reqTs, respTs, reqSize, respSize, ok, fault) ==
    [serviceXRoadRequestId |-> svc, clientXRoadRequestId |-> cli,
     requestInTs |-> reqTs, responseOutTs |-> respTs,
     requestSize |-> reqSize, responseSize |-> respSize,
     succeeded |-> ok, faultString |-> fault]

\* a complete record of a successful exchange
recFull == OpElement("svcA", "cliX", "1000", "1250", "10", "20", "true", Absent)
\* a record element with no child element at all
recBare == OpElement(Absent, Absent, Absent, Absent, Absent, Absent, Absent, Absent)
\* a record whose requestInTs is not a number
recBadTs == OpElement("svcA", "cliX", "abc", "1250", "10", "20", "true", Absent)

\* the exchange of recFull while its response is still outstanding
recPending == OpElement("svcA", "cliX", "1000", Absent, "10", Absent, "false", Absent)

OperationalDataRecords == {recFull, recBare, recBadTs, recPending}

\* two more successful exchanges, of 100 ms and of 300 ms
rec100 == OpElement("svcA", "cliX", "1000", "1100", "10", "20", "true", Absent)
rec300 == OpElement("svcA", "cliY", "1000", "1300", "10", "20", "true", Absent)
\* a record whose response is stamped before its request
recReversed == OpElement("svcA", "cliX", "1250", "1000", "10", "20", "true", Absent)
\* an exchange of 1001 ms
recSlow == OpElement("svcB", "cliX", "1000", "2001", "10", "20", "true", Absent)

\* the records of the documents that a single collection is run on
CollectedRecords == OperationalDataRecords \cup {rec100, rec300, recReversed, recSlow}

\* record elements with every combination of present, missing, empty and
\* malformed child elements
RecordElements ==
    {OpElement(svc, cli, reqTs, respTs, reqSize, respSize, ok, fault) :
        svc \in {Absent, NoText, "svcA"}, cli \in {Absent, "cliX"},
        reqTs \in {Absent, "1000", "abc"}, respTs \in {Absent, NoText, "1250", "2001"},
        reqSize \in {Absent, "10", "abc"}, respSize \in {Absent, "20"},
        ok \in {Absent, NoText, "TRUE", "false"}, fault \in {Absent, NoText, "boom"}}

\* str.lower() == 'true' on the texts the documents carry
lower_is_true(text) == text \in {"true", "True", "TRUE"}

\* a parser that defaults the fields together: a record lacking any child
\* element gets the default in every field
ParseOperationalRecordJointDefault(record) ==
    LET complete ==
            /\ record.serviceXRoadRequestId # Absent /\ record.clientXRoadRequestId # Absent
            /\ record.requestInTs # Absent /\ record.responseOutTs # Absent
            /\ record.requestSize # Absent /\ record.responseSize # Absent
            /\ record.succeeded # Absent
        request_ts == fromtimestamp_ms(py_int(record.requestInTs).value)
        response_ts == fromtimestamp_ms(py_int(record.responseOutTs).value)
        text(elem) == IF elem \in {Absent, NoText} THEN NoneStr ELSE elem
    IN  IF complete
        THEN [raised |-> \/ py_int(record.requestInTs).raised
                         \/ py_int(record.responseOutTs).raised
                         \/ py_int(record.requestSize).raised
                         \/ py_int(record.responseSize).raised
                         \/ record.succeeded = NoText,
              data |-> [service_id |-> text(record.serviceXRoadRequestId),
                        client_id |-> text(record.clientXRoadRequestId),
                        producer_id |-> "Unknown",
                        request_timestamp |-> request_ts,
                        response_timestamp |-> response_ts,
                        request_size |-> py_int(record.requestSize).value,
                        response_size |-> py_int(record.responseSize).value,
                        success |-> lower_is_true(record.succeeded),
                        error_message |-> text(record.faultString),
                        request_duration |-> duration_ms(request_ts, response_ts)]]
        ELSE [raised |-> FALSE,
              data |-> [service_id |-> "Unknown", client_id |-> "Unknown",
                        producer_id |-> "Unknown",
                        request_timestamp |-> NoneInt, response_timestamp |-> NoneInt,
                        request_size |-> 0, response_size |-> 0, success |-> FALSE,
                        error_message |-> NoneStr, request_duration |-> NoneInt]]

\* the body of the per-record try of _parse_operational_data_response:
\* one XRoadOperationalData, or an exception (which skips the record)
ParseOperationalRecord(record) ==
    LET reqInt == py_int(record.requestInTs)
        respInt == py_int(record.responseOutTs)
        reqSize == py_int(record.requestSize)
        respSize == py_int(record.responseSize)
        raised ==
            \/ record.requestInTs # Absent /\ reqInt.raised
            \/ record.responseOutTs # Absent /\ respInt.raised
            \/ record.requestSize # Absent /\ reqSize.raised
            \/ record.responseSize # Absent /\ respSize.raised
            \/ record.succeeded = NoText
        request_ts == IF record.requestInTs # Absent
                      THEN fromtimestamp_ms(reqInt.value) ELSE NoneInt
        response_ts == IF record.responseOutTs # Absent
                       THEN fromtimestamp_ms(respInt.value) ELSE NoneInt
        text_of(elem, default) ==
            IF elem = Absent THEN default ELSE IF elem = NoText THEN NoneStr ELSE elem
        \* "if request_ts and response_ts": a datetime is always truthy
        duration == IF request_ts # NoneInt /\ response_ts # NoneInt
                    THEN duration_ms(request_ts, response_ts) ELSE NoneInt
    IN  [raised |-> raised,
         data |-> [service_id |-> text_of(record.serviceXRoadRequestId, "Unknown"),
                   client_id |-> text_of(record.clientXRoadRequestId, "Unknown"),
                   producer_id |-> "Unknown",
                   request_timestamp |-> request_ts,
                   response_timestamp |-> response_ts,
                   request_size |-> IF record.requestSize # Absent THEN reqSize.value ELSE 0,
                   response_size |-> IF record.responseSize # Absent THEN respSize.value ELSE 0,
                   success |-> IF record.succeeded # Absent
                               THEN lower_is_true(record.succeeded) ELSE FALSE,
                   error_message |-> text_of(record.faultString, NoneStr),
                   request_duration |-> duration]]

\* a response body: a text that is no XML, or a well-formed document with
\* its m:operationalDataRecord elements in document order
MalformedXml == [wellFormed |-> FALSE]

OperationalDocument(records) == [wellFormed |-> TRUE, records |-> records]

\* a parser that gives up on the whole batch at the first malformed record
ParseRecordsAllOrNothing(records) ==
    IF \E i \in 1..Len(records) : ParseOperationalRecord(records[i]).raised THEN <<>>
    ELSE [i \in 1..Len(records) |-> ParseOperationalRecord(records[i]).data]

RECURSIVE ParseRecords(_)
ParseRecords(records) ==
    IF records = <<>> THEN <<>>
    ELSE LET r == ParseOperationalRecord(Head(records))
         IN  (IF r.raised THEN <<>> ELSE <<r.data>>) \o ParseRecords(Tail(records))

\* _parse_operational_data_response: never raises; [] for a malformed document
ParseOperationalDataResponse(response_xml) ==
    IF ~response_xml.wellFormed THEN <<>> ELSE ParseRecords(response_xml.records)

(***************************************************************************)
(* Health documents.                                                       *)
(***************************************************************************)
\* an m:lastPeriodStatistics element
StatsElement(okCount, failCount, minDuration) ==
    [present |-> TRUE,
     successfulRequestCount |-> okCount, unsuccessfulRequestCount |-> failCount,
     requestMinDuration |-> minDuration]

\* no m:lastPeriodStatistics element
NoStats ==
    [present |-> FALSE,
     successfulRequestCount |-> Absent, unsuccessfulRequestCount |-> Absent,
     requestMinDuration |-> Absent]

\* an m:serviceEvents element; stats is NoStats or a StatsElement
ServiceElement(code, lastOk, lastFail, stats) ==
    [serviceCode |-> code, lastSuccessfulRequestTimestamp |-> lastOk,
     lastUnsuccessfulRequestTimestamp |-> lastFail, lastPeriodStatistics |-> stats]

svcFull == ServiceElement("svcA", "1000", "900", StatsElement("3", "1", "2.5"))
svcNoStats == ServiceElement("svcB", Absent, Absent, NoStats)
svcNoCode == ServiceElement(Absent, "1000", Absent, NoStats)
svcBadCount == ServiceElement("svcA", "1000", Absent, StatsElement("many", "1", "2.5"))

ServiceEvents == {svcFull, svcNoStats, svcNoCode, svcBadCount}

\* a well-formed health document
HealthDocument(startup, period, services) ==
    [wellFormed |-> TRUE,
     monitoringStartupTimestamp |-> startup, statisticsPeriodSeconds |-> period,
     servicesEvents |-> services]

\* a dict key that was never set
NoKey == [key |-> FALSE, value |-> 0]
Key(v) == [key |-> TRUE, value |-> v]

\* the loop body of _parse_health_data_response for one service: service_data
\* (a dict: each key is set only if its element is present), or an exception
ParseServiceEvent(service_event) ==
    LET lastOk == py_int(service_event.lastSuccessfulRequestTimestamp)
        lastFail == py_int(service_event.lastUnsuccessfulRequestTimestamp)
        stats_elem == service_event.lastPeriodStatistics
        hasStats == stats_elem.present
        okCount == py_int(stats_elem.successfulRequestCount)
        failCount == py_int(stats_elem.unsuccessfulRequestCount)
        avg == py_float(stats_elem.requestMinDuration)
        set(elem, conv) == IF elem = Absent THEN NoKey ELSE Key(conv.value)
        raised ==
            \/ service_event.lastSuccessfulRequestTimestamp # Absent /\ lastOk.raised
            \/ service_event.lastUnsuccessfulRequestTimestamp # Absent /\ lastFail.raised
            \/ hasStats /\ stats_elem.successfulRequestCount # Absent /\ okCount.raised
            \/ hasStats /\ stats_elem.unsuccessfulRequestCount # Absent /\ failCount.raised
            \/ hasStats /\ stats_elem.requestMinDuration # Absent /\ avg.raised
    IN  [raised |-> raised,
         service_data |->
            [serviceCode |-> IF service_event.serviceCode = Absent THEN NoneStr
                             ELSE IF service_event.serviceCode = NoText THEN NoneStr
                             ELSE service_event.serviceCode,
             lastSuccessfulRequestTimestamp |->
                 set(service_event.lastSuccessfulRequestTimestamp, lastOk),
             lastUnsuccessfulRequestTimestamp |->
                 set(service_event.lastUnsuccessfulRequestTimestamp, lastFail),
             hasStatistics |-> hasStats,
             successfulRequestCount |->
                 IF hasStats THEN set(stats_elem.successfulRequestCount, okCount) ELSE NoKey,
             unsuccessfulRequestCount |->
                 IF hasStats THEN set(stats_elem.unsuccessfulRequestCount, failCount) ELSE NoKey,
             avgDuration |->
                 IF hasStats THEN set(stats_elem.requestMinDuration, avg) ELSE NoKey]]

RECURSIVE ParseServices(_)
ParseServices(events) ==
    IF events = <<>> THEN [raised |-> FALSE, services |-> <<>>]
    ELSE LET one == ParseServiceEvent(Head(events))
             rest == ParseServices(Tail(events))
         IN  IF one.raised \/ rest.raised
             THEN [raised |-> TRUE, services |-> <<>>]
             ELSE [raised |-> FALSE, services |-> <<one.service_data>> \o rest.services]

\* _parse_health_data_response: the health_data dict.  One try spans the
\* whole function: an exception anywhere leaves the keys set so far, and
\* 'services' is set last
ParseHealthDataResponse(response_xml) ==
    IF ~response_xml.wellFormed
    THEN [monitoringStartupTimestamp |-> NoKey, statisticsPeriodSeconds |-> NoKey,
          hasServices |-> FALSE, services |-> <<>>]
    ELSE LET startup == py_int(response_xml.monitoringStartupTimestamp)
             period == py_int(response_xml.statisticsPeriodSeconds)
             startupRaised == response_xml.monitoringStartupTimestamp # Absent /\ startup.raised
             periodRaised == response_xml.statisticsPeriodSeconds # Absent /\ period.raised
             parsed == ParseServices(response_xml.servicesEvents)
         IN  [monitoringStartupTimestamp |->
                  IF response_xml.monitoringStartupTimestamp # Absent /\ ~startupRaised
                  THEN Key(startup.value) ELSE NoKey,
              statisticsPeriodSeconds |->
                  IF response_xml.statisticsPeriodSeconds # Absent
                     /\ ~startupRaised /\ ~periodRaised
                  THEN Key(period.value) ELSE NoKey,
              hasServices |-> ~startupRaised /\ ~periodRaised /\ ~parsed.raised,
              services |-> IF ~startupRaised /\ ~periodRaised /\ ~parsed.raised
                           THEN parsed.services ELSE <<>>]

\* the empty dict {} that get_health_data returns on a failure
EmptyDict ==
    [monitoringStartupTimestamp |-> NoKey, statisticsPeriodSeconds |-> NoKey,
     hasServices |-> FALSE, services |-> <<>>]

\* bool(health_data): a dict is truthy when it has a key
DictTruthy(health_data) ==
    \/ health_data.monitoringStartupTimestamp.key
    \/ health_data.statisticsPeriodSeconds.key
    \/ health_data.hasServices

(***************************************************************************)
(* Transport: what requests.post gives.                                    *)
(***************************************************************************)
StatusCodes == {200, 204, 404, 500}

\* requests.post raised: connection refused, or the timeout expired
ConnectionRefused == [kind |-> "ConnectionError"]
Timeout == [kind |-> "Timeout"]
\* requests.post returned a response
HttpResponse(status_code, text) == [kind |-> "response", status_code |-> status_code, text |-> text]
\* no call has returned in the current step
NoResponse == [kind |-> "none"]

\* a transport failure: refused, timed out, or a status that is not 2xx
TransportFailure(outcome) ==
    \/ outcome.kind \in {"ConnectionError", "Timeout"}
    \/ outcome.kind = "response" /\ ~(outcome.status_code \in 200..299)

\* lines 60-77 of get_operational_data with every failure re-raised
get_operational_data_raising(outcome) ==
    IF outcome.kind = "response" /\ outcome.status_code = 200
    THEN [raised |-> FALSE, value |-> ParseOperationalDataResponse(outcome.text)]
    ELSE [raised |-> TRUE, value |-> <<>>]

\* lines 60-77 of get_operational_data without the test of the status code
get_operational_data_any_status(outcome) ==
    IF outcome.kind = "response"
    THEN [raised |-> FALSE, value |-> ParseOperationalDataResponse(outcome.text)]
    ELSE [raised |-> FALSE, value |-> <<>>]

\* lines 60-77 of get_operational_data with a parser that lets the
\* ParseError of a malformed document escape
get_operational_data_parse_raising(outcome) ==
    IF outcome.kind = "response" /\ outcome.status_code = 200
    THEN [raised |-> ~outcome.text.wellFormed,
          value |-> ParseOperationalDataResponse(outcome.text)]
    ELSE [raised |-> FALSE, value |-> <<>>]

\* lines 60-77 of get_operational_data: the try around requests.post
get_operational_data(outcome) ==
    IF outcome.kind = "response"
    THEN IF outcome.status_code = 200
         THEN [raised |-> FALSE, value |-> ParseOperationalDataResponse(outcome.text)]
         ELSE [raised |-> FALSE, value |-> <<>>]
    ELSE [raised |-> FALSE, value |-> <<>>]

\* lines 85-102 of get_health_data with every failure re-raised
get_health_data_raising(outcome) ==
    IF outcome.kind = "response" /\ outcome.status_code = 200
    THEN [raised |-> FALSE, value |-> ParseHealthDataResponse(outcome.text)]
    ELSE [raised |-> TRUE, value |-> EmptyDict]

\* lines 85-102 of get_health_data: the try around requests.post
get_health_data(outcome) ==
    IF outcome.kind = "response"
    THEN IF outcome.status_code = 200
         THEN [raised |-> FALSE, value |-> ParseHealthDataResponse(outcome.text)]
         ELSE [raised |-> FALSE, value |-> EmptyDict]
    ELSE [raised |-> FALSE, value |-> EmptyDict]

(***************************************************************************)
(* The local store.  A table is the sequence of its committed rows in      *)
(* insertion order; a row's id is its position.                            *)
(***************************************************************************)
\* sqlite3's adapter for bool
adapt_bool(b) == IF b THEN 1 ELSE 0

\* the row that the INSERT of _store_operational_data binds for one record
OperationalRow(data) ==
    [service_id |-> data.service_id, client_id |-> data.client_id,
     producer_id |-> data.producer_id,
     request_timestamp |-> data.request_timestamp,
     response_timestamp |-> data.response_timestamp,
     request_size |-> data.request_size, response_size |-> data.response_size,
     success |-> adapt_bool(data.success),
     error_message |-> data.error_message,
     request_duration |-> data.request_duration]

\* the natural key of an operational row
NaturalKey(row) == <<row.service_id, row.client_id, row.request_timestamp>>

\* INSERT OR REPLACE under a unique natural key in place of INSERT OR
\* IGNORE: the new row takes the place of the stored row of the same key
InsertOrReplace(rows, row) ==
    IF row.service_id = NoneStr \/ row.client_id = NoneStr THEN rows
    ELSE Append(SelectSeq(rows, LAMBDA r : NaturalKey(r) # NaturalKey(row)), row)

\* INSERT OR IGNORE INTO operational_data, on the rows visible to the
\* connection: the table declares service_id and client_id NOT NULL and no
\* UNIQUE constraint, so only a NULL in one of the two is ignored
InsertOrIgnore(rows, row) ==
    IF row.service_id = NoneStr \/ row.client_id = NoneStr THEN rows
    ELSE Append(rows, row)

\* the row that the INSERT of _store_health_data binds for one service
HealthRow(service) ==
    LET ts(k) == IF k.key /\ k.value # 0 THEN fromtimestamp_ms(k.value) ELSE NoneInt
        get(k, default) == IF k.key THEN k.value ELSE default
    IN  [service_code |-> service.serviceCode,
         last_successful_request |-> ts(service.lastSuccessfulRequestTimestamp),
         last_unsuccessful_request |-> ts(service.lastUnsuccessfulRequestTimestamp),
         successful_count |-> get(service.successfulRequestCount, 0),
         unsuccessful_count |-> get(service.unsuccessfulRequestCount, 0),
         avg_duration |-> get(service.avgDuration, 0)]

\* an INSERT that skips a snapshot equal to a stored one
InsertHealthUnique(rows, row) ==
    IF row.service_code = NoneStr
    THEN [raised |-> TRUE, rows |-> rows]
    ELSE [raised |-> FALSE,
          rows |-> IF \E i \in 1..Len(rows) : rows[i] = row THEN rows ELSE Append(rows, row)]

\* INSERT INTO health_data: service_code is NOT NULL, so a NULL raises
\* sqlite3.IntegrityError
InsertHealth(rows, row) ==
    IF row.service_code = NoneStr
    THEN [raised |-> TRUE, rows |-> rows]
    ELSE [raised |-> FALSE, rows |-> Append(rows, row)]

(***************************************************************************)
(* Analytics: the two SELECTs of get_service_analytics.                    *)
(***************************************************************************)
RECURSIVE SelectSeq2(_, _)
\* the subsequence of rows at which Test holds (Test is a set of rows)
SelectSeq2(rows, keep) ==
    IF rows = <<>> THEN <<>>
    ELSE (IF Head(rows) \in keep THEN <<Head(rows)>> ELSE <<>>) \o SelectSeq2(Tail(rows), keep)

RECURSIVE SumField(_, _)
SumField(rows, f) == IF rows = <<>> THEN 0 ELSE Head(rows)[f] + SumField(Tail(rows), f)

RangeOf(rows) == {rows[i] : i \in 1..Len(rows)}

\* SQL NULL as the value of an aggregate over no (non-NULL) value
SqlNull == [null |-> TRUE, num |-> 0, den |-> 1]
\* a number num/den
SqlNum(num, den) == [null |-> FALSE, num |-> num, den |-> den]

\* aggregates that take a NULL request_duration as a duration of 0
AggregateNullAsZero(rows) ==
    LET zeroed == [i \in 1..Len(rows) |->
                      IF rows[i].request_duration = NoneInt
                      THEN [rows[i] EXCEPT !.request_duration = 0] ELSE rows[i]]
        durations == {r.request_duration : r \in RangeOf(zeroed)}
        count(ok) ==
            IF rows = <<>> THEN SqlNull
            ELSE SqlNum(Cardinality({i \in 1..Len(rows) : rows[i].success = ok}), 1)
        avg(f) == IF rows = <<>> THEN SqlNull ELSE SqlNum(SumField(zeroed, f), Len(rows))
    IN  [total_requests |-> Len(rows),
         successful_requests |-> count(1),
         failed_requests |-> count(0),
         avg_duration |-> avg("request_duration"),
         min_duration |->
            IF rows = <<>> THEN SqlNull
            ELSE SqlNum(CHOOSE d \in durations : \A e \in durations : d <= e, 1),
         max_duration |->
            IF rows = <<>> THEN SqlNull
            ELSE SqlNum(CHOOSE d \in durations : \A e \in durations : d >= e, 1),
         avg_request_size |-> avg("request_size"),
         avg_response_size |-> avg("response_size")]

\* COUNT(*), SUM(CASE ...), AVG, MIN and MAX over the selected rows; SUM of
\* no row is NULL, and AVG, MIN and MAX skip a NULL request_duration
Aggregate(rows) ==
    LET timed == SelectSeq2(rows, {r \in RangeOf(rows) : r.request_duration # NoneInt})
        durations == {r.request_duration : r \in RangeOf(timed)}
    IN  [total_requests |-> Len(rows),
         successful_requests |->
            IF rows = <<>> THEN SqlNull
            ELSE SqlNum(Cardinality({i \in 1..Len(rows) : rows[i].success = 1}), 1),
         failed_requests |->
            IF rows = <<>> THEN SqlNull
            ELSE SqlNum(Cardinality({i \in 1..Len(rows) : rows[i].success = 0}), 1),
         avg_duration |->
            IF timed = <<>> THEN SqlNull
            ELSE SqlNum(SumField(timed, "request_duration"), Len(timed)),
         min_duration |->
            IF timed = <<>> THEN SqlNull
            ELSE SqlNum(CHOOSE d \in durations : \A e \in durations : d <= e, 1),
         max_duration |->
            IF timed = <<>> THEN SqlNull
            ELSE SqlNum(CHOOSE d \in durations : \A e \in durations : d >= e, 1),
         avg_request_size |->
            IF rows = <<>> THEN SqlNull
            ELSE SqlNum(SumField(rows, "request_size"), Len(rows)),
         avg_response_size |->
            IF rows = <<>> THEN SqlNull
            ELSE SqlNum(SumField(rows, "response_size"), Len(rows))]

\* "request_timestamp > ?": a NULL request_timestamp compares as NULL and the
\* row is not selected
InWindow(row, since) == row.request_timestamp # NoneInt /\ row.request_timestamp > since

\* the SELECT for one service: exactly one result row
ServiceAnalytics(table, service_id, since) ==
    <<Aggregate(SelectSeq2(table,
        {r \in RangeOf(table) : r.service_id = service_id /\ InWindow(r, since)}))>>

\* the SELECT ... GROUP BY service_id ORDER BY total_requests DESC: the
\* possible results (the order of groups of equal size is not determined)
AllServicesAnalytics(table, since) ==
    LET selected == SelectSeq2(table, {r \in RangeOf(table) : InWindow(r, since)})
        ids == {r.service_id : r \in RangeOf(selected)}
        group(id) ==
            LET agg == Aggregate(SelectSeq2(selected,
                           {r \in RangeOf(selected) : r.service_id = id}))
            IN  [service_id |-> id, total_requests |-> agg.total_requests,
                 successful_requests |-> agg.successful_requests,
                 failed_requests |-> agg.failed_requests,
                 avg_duration |-> agg.avg_duration]
        n == Cardinality(ids)
    IN  {res \in [1..n -> {group(id) : id \in ids}] :
            /\ \A i, j \in 1..n : i # j => res[i] # res[j]
            /\ \A i, j \in 1..n : i < j => res[i].total_requests >= res[j].total_requests}

\* get_service_analytics: "if service_id" takes None and "" as no service
get_service_analytics(table, service_id, since) ==
    IF service_id # NoneStr /\ service_id # ""
    THEN {ServiceAnalytics(table, service_id, since)}
    ELSE AllServicesAnalytics(table, since)

(***************************************************************************)
(* The program state.                                                      *)
(***************************************************************************)
VARIABLES
    client_id,        \* config['client_id'], the requester's compact identifier
    client_filter,    \* the client_filter argument of get_operational_data
    request,          \* soap_request: what the request builder gave last
    operational_data, \* table operational_data: the committed rows
    health_data,      \* table health_data: the committed rows
    pc,               \* the line start_monitoring_loop is at
    loop,             \* "running", "returned" (break) or "raised"
    interrupted,      \* a KeyboardInterrupt was delivered to the process
    response,         \* what requests.post gave to the call that just returned
    collected,        \* collect_operational_data's list operational_data
    health,           \* collect_health_data's dict health_data
    txn,              \* the open connection's view of the table it writes:
                      \* the committed rows and its uncommitted inserts
    cursor,           \* how many items of the batch the store loop has executed
    log,              \* the logger's messages of the current cycle
    atCycleStart,     \* the two tables as they were when the cycle began
    results,          \* what the last get_service_analytics returned
    query,            \* the arguments of that call: service_id and since
    service_status,   \* table service_status of the basic agent (src/agente-basic.py)
    clock,            \* the database's CURRENT_TIMESTAMP, in whole seconds
    current_status    \* what the last current-status read returned

\* the state of the basic agent and its dashboard
statusVars == <<service_status, clock, current_status>>

vars == <<client_id, client_filter, request, operational_data, health_data, pc, loop, interrupted, response,
          collected, health, txn, cursor, log, atCycleStart, results, query, statusVars>>

\* sequences over S of length at most n
SeqsUpTo(S, n) == UNION {[1..k -> S] : k \in 0..n}

\* those of them that name no element twice: a response carries each record
\* of the server's log once
DistinctSeqsUpTo(S, n) ==
    {q \in SeqsUpTo(S, n) : \A i, j \in 1..Len(q) : i # j => q[i] # q[j]}

\* the identifiers a configuration file is loaded with: INSTANCE/CLASS/CODE,
\* CLASS/CODE and an empty string
ConfiguredIds == {<<"G", "/", "G", "/", "G">>, <<"G", "/", "G">>, <<>>}

\* the bodies the security server answers an operational query with, at
\* most n records long
OperationalDocuments(n) ==
    {MalformedXml} \cup
    {OperationalDocument(rs) : rs \in DistinctSeqsUpTo(OperationalDataRecords, n)}

HealthDocuments(n) ==
    {MalformedXml} \cup
    {HealthDocument(st, Absent, ss) : st \in {"500", "soon"}, ss \in DistinctSeqsUpTo(ServiceEvents, n)}

Min(a, b) == IF a <= b THEN a ELSE b

\* what requests.post can give to get_operational_data
OperationalOutcomes(n) ==
    {ConnectionRefused, Timeout}
    \cup {HttpResponse(c, MalformedXml) : c \in StatusCodes \ {200}}
    \cup {HttpResponse(500, OperationalDocument(<<recFull>>))}
    \cup {HttpResponse(200, d) : d \in OperationalDocuments(n)}

HealthOutcomes(n) ==
    {ConnectionRefused, Timeout}
    \cup {HttpResponse(c, MalformedXml) : c \in StatusCodes \ {200}}
    \cup {HttpResponse(500, HealthDocument("500", Absent, <<svcFull>>))}
    \cup {HttpResponse(200, d) : d \in HealthDocuments(n)}

\* the arguments get_service_analytics is called with
AnalyticsServices == {NoneStr, "svcA"}
AnalyticsSince == {0, fromtimestamp_ms(1100)}
NoResults == <<[no_query |-> TRUE]>>
NoQuery == [service_id |-> NoneStr, since |-> NoneInt]
\* no current-status read has returned
NoStatusRead == [reader |-> "none", rows |-> {}]

\* the statements of the try body in their order: line 528 is the first,
\* line 531 follows it, the pause of line 534 is the last
HealthFirst == "collect_health_data"
FirstStep == "collect_operational_data"
AfterOperational == "collect_health_data"
AfterHealth == "sleep_interval"

\* no request has been built
NoRequest == [raised |-> FALSE, serviceCode |-> "none"]

Init ==
    /\ client_id \in ConfiguredIds
    /\ client_filter = NoFilter
    /\ request = NoRequest
    /\ operational_data = <<>>
    /\ health_data = <<>>
    /\ pc = FirstStep
    /\ loop = "running"
    /\ interrupted = FALSE
    /\ response = NoResponse
    /\ collected = <<>>
    /\ health = EmptyDict
    /\ txn = <<>>
    /\ cursor = 0
    /\ log = <<>>
    /\ atCycleStart = [operational_data |-> <<>>, health_data |-> <<>>]
    /\ results = NoResults
    /\ query = NoQuery
    /\ service_status = <<>>
    /\ clock = 0
    /\ current_status = NoStatusRead

Running == loop = "running"

\* an except clause that ends the loop: the failure leaves
\* start_monitoring_loop
FailureEndsLoop ==
    /\ pc' = pc
    /\ loop' = "raised"
    /\ log' = Append(log, "loop error")
    /\ txn' = <<>>
    /\ cursor' = 0
    /\ UNCHANGED interrupted

\* a failure swallowed where it is raised: the cycle goes on with its next
\* statement
FailureSwallowed ==
    /\ pc' = IF pc \in {"collect_operational_data", "post_operational", "store_operational"}
             THEN AfterOperational ELSE AfterHealth
    /\ log' = Append(log, "loop error")
    /\ txn' = <<>>
    /\ cursor' = 0
    /\ UNCHANGED <<loop, interrupted>>

\* the except Exception clause of start_monitoring_loop (lines 539-541): the
\* failure is logged and the loop pauses for a minute; the connection of a
\* failed store is dropped with its transaction
CaughtByLoop ==
    /\ pc' = "sleep_backoff"
    /\ log' = Append(log, "loop error")
    /\ txn' = <<>>
    /\ cursor' = 0
    /\ UNCHANGED <<loop, interrupted>>

(***************************************************************************)
(* One collection cycle: the try body of start_monitoring_loop.            *)
(***************************************************************************)
\* collect_operational_data up to the request: line 406 logs, line 58 builds
\* the request outside the try of get_operational_data
StartOperationalCall ==
    /\ Running /\ pc = "collect_operational_data"
    /\ request' = BuildOperationalDataRequest(client_id, client_filter)
    /\ IF request'.raised
       THEN /\ CaughtByLoop
       ELSE /\ pc' = "post_operational"
            /\ log' = Append(log, "collecting operational data")
            /\ UNCHANGED <<loop, interrupted, txn, cursor>>
    /\ UNCHANGED <<client_id, client_filter, operational_data, health_data, response,
                   collected, health, atCycleStart, results,
                   query, statusVars>>

\* what get_operational_data logs for an outcome (lines 72, 76 and 253)
OperationalLog(outcome) ==
    IF outcome.kind # "response" THEN <<"operational request error">>
    ELSE IF outcome.status_code # 200 THEN <<"operational status error">>
    ELSE IF ~outcome.text.wellFormed THEN <<"operational parse error">>
    ELSE <<>>

\* requests.post returns or raises, and get_operational_data returns to line 409
OperationalResponse ==
    /\ Running /\ pc = "post_operational"
    /\ \E outcome \in OperationalOutcomes(Min(MaxRecords, MaxOpRows - Len(operational_data))) :
          LET r == get_operational_data(outcome)
          IN  /\ response' = outcome
              /\ IF r.raised
                 THEN /\ CaughtByLoop
                      /\ UNCHANGED collected
                 ELSE /\ collected' = r.value
                      /\ pc' = "operational_returned"
                      /\ log' = log \o OperationalLog(outcome)
                      /\ UNCHANGED <<loop, interrupted, txn, cursor>>
    /\ request' = NoRequest
    /\ UNCHANGED <<client_id, client_filter, operational_data, health_data, health,
                   atCycleStart, results,
                   query, statusVars>>

\* an empty result that ends the cycle: the health step is skipped and the
\* cycle goes to its pause
OperationalReturnedSkipsHealth ==
    /\ Running /\ pc = "operational_returned"
    /\ response' = NoResponse
    /\ IF collected # <<>>
       THEN /\ pc' = "store_operational"
            /\ log' = log
            /\ txn' = operational_data
       ELSE /\ pc' = AfterHealth
            /\ log' = Append(log, "no operational data")
            /\ txn' = <<>>
    /\ cursor' = 0
    /\ UNCHANGED <<client_id, client_filter, request, operational_data, health_data, loop,
                   interrupted, collected, health, atCycleStart, results,
                   query, statusVars>>

\* line 411: "if operational_data"; a list with records is stored (line 435
\* connects), an empty list is not (line 415)
OperationalReturned ==
    /\ Running /\ pc = "operational_returned"
    /\ response' = NoResponse
    /\ IF collected # <<>>
       THEN /\ pc' = "store_operational"
            /\ log' = log
            /\ txn' = operational_data
       ELSE /\ pc' = AfterOperational
            /\ log' = Append(log, "no operational data")
            /\ txn' = <<>>
    /\ cursor' = 0
    /\ UNCHANGED <<client_id, client_filter, request, operational_data, health_data, loop,
                   interrupted, collected, health, atCycleStart, results,
                   query, statusVars>>

\* a cursor.execute on a connection in autocommit mode: each INSERT is
\* committed as it is executed
InsertOperationalAutocommit ==
    /\ Running /\ pc = "store_operational"
    /\ cursor < Len(collected)
    /\ txn' = InsertOrIgnore(txn, OperationalRow(collected[cursor + 1]))
    /\ operational_data' = txn'
    /\ cursor' = cursor + 1
    /\ UNCHANGED <<client_id, client_filter, request, health_data, pc,
                   loop, interrupted, response, collected, health, log, atCycleStart,
                   results, query, statusVars>>

\* one cursor.execute of the loop of _store_operational_data (lines 438-449)
InsertOperational ==
    /\ Running /\ pc = "store_operational"
    /\ cursor < Len(collected)
    /\ txn' = InsertOrIgnore(txn, OperationalRow(collected[cursor + 1]))
    /\ cursor' = cursor + 1
    /\ UNCHANGED <<client_id, client_filter, request, operational_data, health_data, pc,
                   loop, interrupted, response, collected, health, log, atCycleStart,
                   results,
                   query, statusVars>>

\* conn.commit() of _store_operational_data (line 451) and the return to
\* the loop (line 413 logs)
CommitOperational ==
    /\ Running /\ pc = "store_operational"
    /\ cursor = Len(collected)
    /\ operational_data' = txn
    /\ txn' = <<>>
    /\ cursor' = 0
    /\ collected' = <<>>
    /\ pc' = AfterOperational
    /\ log' = Append(log, "stored operational data")
    /\ UNCHANGED <<client_id, client_filter, request, health_data, loop, interrupted,
                   response, health, atCycleStart, results,
                   query, statusVars>>

\* sqlite3 raises in connect, execute or commit (the file is locked, the
\* disk is full): nothing of the open transaction is committed
StoreFails ==
    /\ Running /\ pc \in {"store_operational", "store_health"}
    /\ CaughtByLoop
    /\ collected' = <<>>
    /\ health' = EmptyDict
    /\ UNCHANGED <<client_id, client_filter, request, operational_data, health_data,
                   response, atCycleStart, results,
                   query, statusVars>>

\* collect_health_data up to the request: line 421 logs, line 83 builds the
\* request outside the try of get_health_data
StartHealthCall ==
    /\ Running /\ pc = "collect_health_data"
    /\ request' = BuildHealthDataRequest(client_id)
    /\ IF request'.raised
       THEN /\ CaughtByLoop
       ELSE /\ pc' = "post_health"
            /\ log' = Append(log, "collecting health data")
            /\ UNCHANGED <<loop, interrupted, txn, cursor>>
    /\ UNCHANGED <<client_id, client_filter, operational_data, health_data, response,
                   collected, health, atCycleStart, results,
                   query, statusVars>>

\* what get_health_data logs for an outcome (lines 97, 101 and 318)
HealthLog(outcome) ==
    IF outcome.kind # "response" THEN <<"health request error">>
    ELSE IF outcome.status_code # 200 THEN <<"health status error">>
    ELSE IF ~ParseHealthDataResponse(outcome.text).hasServices THEN <<"health parse error">>
    ELSE <<>>

\* requests.post returns or raises, and get_health_data returns to line 423
HealthResponse ==
    /\ Running /\ pc = "post_health"
    /\ \E outcome \in HealthOutcomes(Min(MaxServices, MaxHealthRows - Len(health_data))) :
          LET r == get_health_data(outcome)
          IN  /\ response' = outcome
              /\ IF r.raised
                 THEN /\ CaughtByLoop
                      /\ UNCHANGED health
                 ELSE /\ health' = r.value
                      /\ pc' = "health_returned"
                      /\ log' = log \o HealthLog(outcome)
                      /\ UNCHANGED <<loop, interrupted, txn, cursor>>
    /\ request' = NoRequest
    /\ UNCHANGED <<client_id, client_filter, operational_data, health_data, collected,
                   atCycleStart, results,
                   query, statusVars>>

\* line 425: "if health_data and 'services' in health_data"; the services
\* are stored (line 456 connects), otherwise nothing is (line 429) and the
\* cycle goes to its pause (line 534)
HealthReturned ==
    /\ Running /\ pc = "health_returned"
    /\ response' = NoResponse
    /\ IF DictTruthy(health) /\ health.hasServices
       THEN /\ pc' = "store_health"
            /\ log' = log
            /\ health' = health
            /\ txn' = health_data
       ELSE /\ pc' = AfterHealth
            /\ log' = Append(log, "no health data")
            /\ health' = EmptyDict
            /\ txn' = <<>>
    /\ cursor' = 0
    /\ UNCHANGED <<client_id, client_filter, request, operational_data, health_data, loop,
                   interrupted, collected, atCycleStart, results,
                   query, statusVars>>

\* one cursor.execute of the loop of _store_health_data (lines 459-476); a
\* NULL service_code raises sqlite3.IntegrityError
InsertHealthRow ==
    /\ Running /\ pc = "store_health"
    /\ cursor < Len(health.services)
    /\ LET r == InsertHealth(txn, HealthRow(health.services[cursor + 1]))
       IN  IF r.raised
           THEN /\ CaughtByLoop
                /\ health' = EmptyDict
           ELSE /\ txn' = r.rows
                /\ cursor' = cursor + 1
                /\ UNCHANGED <<pc, loop, interrupted, log, health>>
    /\ UNCHANGED <<client_id, client_filter, request, operational_data, health_data,
                   response, collected, atCycleStart, results,
                   query, statusVars>>

\* conn.commit() of _store_health_data (line 478), the return to the loop
\* (line 427 logs) and the start of the pause of line 534
CommitHealth ==
    /\ Running /\ pc = "store_health"
    /\ cursor = Len(health.services)
    /\ health_data' = txn
    /\ txn' = <<>>
    /\ cursor' = 0
    /\ health' = EmptyDict
    /\ pc' = AfterHealth
    /\ log' = Append(log, "stored health data")
    /\ UNCHANGED <<client_id, client_filter, request, operational_data, loop, interrupted,
                   response, collected, atCycleStart, results,
                   query, statusVars>>

\* time.sleep returns (line 534 or line 541) and the while loop starts the
\* next cycle
NextCycle ==
    /\ Running /\ pc \in {"sleep_interval", "sleep_backoff"}
    /\ pc' = FirstStep
    /\ log' = <<>>
    /\ atCycleStart' = [operational_data |-> operational_data, health_data |-> health_data]
    /\ UNCHANGED <<client_id, client_filter, request, operational_data, health_data, loop,
                   interrupted, response, collected, health, txn, cursor, results,
                   query, statusVars>>

\* a stop signal that is only noted while a cycle runs and honoured in a pause
KeyboardInterruptDeferred ==
    /\ Running
    /\ interrupted' = TRUE
    /\ loop' = IF pc \in {"sleep_interval", "sleep_backoff"} THEN "returned" ELSE loop
    /\ UNCHANGED <<client_id, client_filter, request, operational_data, health_data, pc,
                   response, collected, health, txn, cursor, log, atCycleStart, results,
                   query, statusVars>>

\* SIGINT: Python raises KeyboardInterrupt at the line the loop is at.  No
\* "except Exception" catches it; inside the try it reaches line 536 and the
\* loop breaks, in the pause of the except clause (line 541) it leaves
\* start_monitoring_loop as an exception.  pc stays at the line that was
\* interrupted; the frames of the calls in progress are unwound, their
\* locals are gone and an open connection is dropped with its transaction.
KeyboardInterrupt ==
    /\ Running
    /\ interrupted' = TRUE
    /\ loop' = IF pc = "sleep_backoff" THEN "raised" ELSE "returned"
    /\ txn' = <<>>
    /\ cursor' = 0
    /\ collected' = <<>>
    /\ health' = EmptyDict
    /\ response' = NoResponse
    /\ request' = NoRequest
    /\ UNCHANGED <<client_id, client_filter, operational_data, health_data, pc, log,
                   atCycleStart, results,
                   query, statusVars>>

\* the caller reads analytics once the loop has returned control to it: the
\* program has one thread, so no query runs while start_monitoring_loop
\* does (get_service_analytics opens its own connection and sees the
\* committed rows)
GetServiceAnalytics ==
    /\ ~Running
    /\ \E service_id \in AnalyticsServices, since \in AnalyticsSince :
          /\ results' \in get_service_analytics(operational_data, service_id, since)
          /\ query' = [service_id |-> service_id, since |-> since]
    /\ UNCHANGED <<client_id, client_filter, request, operational_data, health_data, pc,
                   loop, interrupted, response, collected, health, txn, cursor, log,
                   atCycleStart, statusVars>>

Next ==
    \/ StartOperationalCall
    \/ OperationalResponse
    \/ OperationalReturned
    \/ InsertOperational
    \/ CommitOperational
    \/ StoreFails
    \/ StartHealthCall
    \/ HealthResponse
    \/ HealthReturned
    \/ InsertHealthRow
    \/ CommitHealth
    \/ NextCycle
    \/ KeyboardInterrupt
    \/ GetServiceAnalytics

Spec == Init /\ [][Next]_vars

(***************************************************************************)
(* The request builders on their own: every identifier up to MaxIdLen      *)
(* characters as requester and as client filter.                           *)
(***************************************************************************)
InitIdentifiers ==
    /\ client_id \in StringsUpTo(MaxIdLen)
    /\ client_filter \in StringsUpTo(MaxIdLen) \cup {NoFilter}
    /\ request = NoRequest
    /\ operational_data = <<>>
    /\ health_data = <<>>
    /\ pc = FirstStep
    /\ loop = "running"
    /\ interrupted = FALSE
    /\ response = NoResponse
    /\ collected = <<>>
    /\ health = EmptyDict
    /\ txn = <<>>
    /\ cursor = 0
    /\ log = <<>>
    /\ atCycleStart = [operational_data |-> <<>>, health_data |-> <<>>]
    /\ results = NoResults
    /\ query = NoQuery
    /\ service_status = <<>>
    /\ clock = 0
    /\ current_status = NoStatusRead

\* get_operational_data(records_from, records_to, client_filter), line 58
BuildOperationalRequest ==
    /\ request' = BuildOperationalDataRequest(client_id, client_filter)
    /\ UNCHANGED <<client_id, client_filter, operational_data, health_data, pc, loop,
                   interrupted, response, collected, health, txn, cursor, log,
                   atCycleStart, results,
                   query, statusVars>>

\* get_health_data(), line 83
BuildHealthRequest ==
    /\ request' = BuildHealthDataRequest(client_id)
    /\ UNCHANGED <<client_id, client_filter, operational_data, health_data, pc, loop,
                   interrupted, response, collected, health, txn, cursor, log,
                   atCycleStart, results,
                   query, statusVars>>

NextIdentifiers == BuildOperationalRequest \/ BuildHealthRequest

SpecIdentifiers == InitIdentifiers /\ [][NextIdentifiers]_vars

(***************************************************************************)
(* A single collection followed by analytics, as main() runs them before   *)
(* the loop (lines 549 and 553), on documents of up to MaxBatch records    *)
(* and on documents of one record element of any shape.                    *)
(***************************************************************************)
\* the loop of _store_operational_data (lines 438-449) on the rows visible
\* to its connection
RECURSIVE StoreOperationalData(_, _)
StoreOperationalData(rows, batch) ==
    IF batch = <<>> THEN rows
    ELSE StoreOperationalData(InsertOrIgnore(rows, OperationalRow(Head(batch))), Tail(batch))

CollectedDocuments ==
    {MalformedXml}
    \cup {OperationalDocument(rs) : rs \in SeqsUpTo(CollectedRecords, MaxBatch)}
    \cup {OperationalDocument(<<r>>) : r \in RecordElements}

CollectedOutcomes ==
    {ConnectionRefused, HttpResponse(500, MalformedXml)}
    \cup {HttpResponse(200, d) : d \in CollectedDocuments}

InitCollect ==
    /\ client_id \in ConfiguredIds
    /\ client_filter = NoFilter
    /\ request = NoRequest
    /\ operational_data = <<>>
    /\ health_data = <<>>
    /\ pc = "test_collection"
    /\ loop = "not started"
    /\ interrupted = FALSE
    /\ response = NoResponse
    /\ collected = <<>>
    /\ health = EmptyDict
    /\ txn = <<>>
    /\ cursor = 0
    /\ log = <<>>
    /\ atCycleStart = [operational_data |-> <<>>, health_data |-> <<>>]
    /\ results = NoResults
    /\ query = NoQuery
    /\ service_status = <<>>
    /\ clock = 0
    /\ current_status = NoStatusRead

\* line 549: collect_operational_data(hours_back=24) from its call to its
\* return (lines 401-417); main() has no try, so an exception of the request
\* builder or of sqlite3 leaves main()
TestCollection ==
    /\ loop = "not started" /\ pc = "test_collection"
    /\ request' = BuildOperationalDataRequest(client_id, client_filter)
    /\ IF request'.raised
       THEN /\ loop' = "raised"
            /\ UNCHANGED <<pc, response, collected, operational_data, log>>
       ELSE \E outcome \in CollectedOutcomes, stored \in BOOLEAN :
               LET r == get_operational_data(outcome)
               IN  /\ response' = outcome
                   /\ collected' = r.value
                   /\ IF r.value = <<>>
                      THEN /\ stored
                           /\ UNCHANGED <<operational_data, loop>>
                           /\ pc' = "analytics"
                           /\ log' = <<"collecting operational data">>
                                        \o OperationalLog(outcome)
                                        \o <<"no operational data">>
                      ELSE IF stored
                      THEN /\ operational_data' = StoreOperationalData(operational_data, r.value)
                           /\ UNCHANGED loop
                           /\ pc' = "analytics"
                           /\ log' = <<"collecting operational data",
                                       "stored operational data">>
                      ELSE /\ loop' = "raised"
                           /\ log' = <<"collecting operational data">>
                           /\ UNCHANGED <<operational_data, pc>>
    /\ UNCHANGED <<client_id, client_filter, health_data, interrupted, health, txn, cursor,
                   atCycleStart, results, query, statusVars>>

NextCollect == TestCollection \/ GetServiceAnalytics

SpecCollect == InitCollect /\ [][NextCollect]_vars

(***************************************************************************)
(* The basic agent (src/agente-basic.py) saves one service_status row per  *)
(* check; its get_dashboard_data and the dashboard (src/dashboard.py) read *)
(* the current status of every (subsystem, service) pair.  A row's id is   *)
(* its position in the table.                                              *)
(***************************************************************************)
\* config['services']: the pairs the agent checks
MonitoredServices == {<<"subA", "svc1">>, <<"subA", "svc2">>}

\* the status values check_service gives
StatusValues == {"UP", "DOWN"}

\* the rows of the table with their ids
StatusRows(table) ==
    {[id |-> i, subsystem |-> table[i].subsystem, service |-> table[i].service,
      status |-> table[i].status, timestamp |-> table[i].timestamp] : i \in 1..Len(table)}

\* SELECT ... WHERE id IN (SELECT MAX(id) ... GROUP BY subsystem, service)
LatestById(table) ==
    {r \in StatusRows(table) :
        \A o \in StatusRows(table) :
            (o.subsystem = r.subsystem /\ o.service = r.service) => o.id <= r.id}

\* SELECT ... FROM service_status s1 INNER JOIN (SELECT subsystem, service,
\* MAX(timestamp) ... GROUP BY subsystem, service) s2 ON the pair and
\* s1.timestamp = s2.max_timestamp: every row that carries the greatest
\* timestamp of its pair
LatestByTimestamp(table) ==
    {r \in StatusRows(table) :
        \A o \in StatusRows(table) :
            (o.subsystem = r.subsystem /\ o.service = r.service)
                => o.timestamp <= r.timestamp}

InitStatus ==
    /\ client_id \in ConfiguredIds
    /\ client_filter = NoFilter
    /\ request = NoRequest
    /\ operational_data = <<>>
    /\ health_data = <<>>
    /\ pc = "status"
    /\ loop = "not started"
    /\ interrupted = FALSE
    /\ response = NoResponse
    /\ collected = <<>>
    /\ health = EmptyDict
    /\ txn = <<>>
    /\ cursor = 0
    /\ log = <<>>
    /\ atCycleStart = [operational_data |-> <<>>, health_data |-> <<>>]
    /\ results = NoResults
    /\ query = NoQuery
    /\ service_status = <<>>
    /\ clock = 0
    /\ current_status = NoStatusRead

metricsVars ==
    <<client_id, client_filter, request, operational_data, health_data, pc, loop,
      interrupted, response, collected, health, txn, cursor, log, atCycleStart, results,
      query>>

\* XRoadAgent._save_status: INSERT INTO service_status and commit; the
\* timestamp column takes its default, CURRENT_TIMESTAMP, which has whole
\* seconds
SaveStatus ==
    /\ Len(service_status) < MaxStatusRows
    /\ \E pair \in MonitoredServices, status \in StatusValues :
          service_status' = Append(service_status,
              [subsystem |-> pair[1], service |-> pair[2], status |-> status,
               timestamp |-> clock])
    /\ UNCHANGED <<clock, current_status, metricsVars>>

\* a second passes
Tick ==
    /\ clock < MaxClock
    /\ clock' = clock + 1
    /\ UNCHANGED <<service_status, current_status, metricsVars>>

\* DashboardData.get_current_status (src/dashboard.py)
GetCurrentStatus ==
    /\ current_status' = [reader |-> "dashboard", rows |-> LatestByTimestamp(service_status)]
    /\ UNCHANGED <<service_status, clock, metricsVars>>

\* the current_status part of XRoadAgent.get_dashboard_data
GetDashboardData ==
    /\ current_status' = [reader |-> "agent", rows |-> LatestById(service_status)]
    /\ UNCHANGED <<service_status, clock, metricsVars>>

NextStatus == SaveStatus \/ Tick \/ GetCurrentStatus \/ GetDashboardData

SpecStatus == InitStatus /\ [][NextStatus]_vars

(***************************************************************************)
(* A single health collection, as main() runs it before the loop (line     *)
(* 550), on documents of up to MaxHealthBatch service entries.             *)
(***************************************************************************)
\* a service entry whose timestamp is no numeral
svcBadTs == ServiceElement("svcB", "later", Absent, NoStats)
\* a service entry whose statistics block carries one of its three values
svcPartStats == ServiceElement("svcC", Absent, "900", StatsElement("3", Absent, Absent))

CollectedServiceEvents == ServiceEvents \cup {svcBadTs, svcPartStats}

CollectedHealthDocuments ==
    {MalformedXml}
    \cup {HealthDocument(st, Absent, ss) :
            st \in {"500", "soon"}, ss \in SeqsUpTo(CollectedServiceEvents, MaxHealthBatch)}

CollectedHealthOutcomes ==
    {ConnectionRefused, HttpResponse(500, MalformedXml)}
    \cup {HttpResponse(200, d) : d \in CollectedHealthDocuments}

\* the loop of _store_health_data (lines 459-476) on the rows visible to its
\* connection: the first INSERT that raises ends it
RECURSIVE StoreHealthData(_, _)
StoreHealthData(rows, services) ==
    IF services = <<>> THEN [raised |-> FALSE, rows |-> rows]
    ELSE LET r == InsertHealth(rows, HealthRow(Head(services)))
         IN  IF r.raised THEN r ELSE StoreHealthData(r.rows, Tail(services))

\* main() has reached line 550: the operational collection of line 549 got
\* no answer from the security server and stored nothing
InitHealth ==
    /\ client_id \in ConfiguredIds
    /\ client_filter = NoFilter
    /\ request = NoRequest
    /\ operational_data = <<>>
    /\ health_data = <<>>
    /\ pc = "test_health_collection"
    /\ loop = "not started"
    /\ interrupted = FALSE
    /\ response = NoResponse
    /\ collected = <<>>
    /\ health = EmptyDict
    /\ txn = <<>>
    /\ cursor = 0
    /\ log = <<>>
    /\ atCycleStart = [operational_data |-> <<>>, health_data |-> <<>>]
    /\ results = NoResults
    /\ query = NoQuery
    /\ service_status = <<>>
    /\ clock = 0
    /\ current_status = NoStatusRead

\* line 550: collect_health_data() from its call to its return (lines
\* 419-431); main() has no try, so an exception of the request builder or of
\* sqlite3 (an IntegrityError of the INSERT, a locked file) leaves main() and
\* the open transaction is dropped
TestHealthCollection ==
    /\ loop = "not started" /\ pc = "test_health_collection"
    /\ request' = BuildHealthDataRequest(client_id)
    /\ IF request'.raised
       THEN /\ loop' = "raised"
            /\ UNCHANGED <<pc, response, health, health_data, log>>
       ELSE \E outcome \in CollectedHealthOutcomes, stored \in BOOLEAN :
               LET r == get_health_data(outcome)
                   s == StoreHealthData(health_data, r.value.services)
               IN  /\ response' = outcome
                   /\ health' = r.value
                   /\ IF ~(DictTruthy(r.value) /\ r.value.hasServices)
                      THEN /\ stored
                           /\ UNCHANGED <<health_data, loop>>
                           /\ pc' = "analytics"
                           /\ log' = <<"collecting health data">>
                                        \o HealthLog(outcome)
                                        \o <<"no health data">>
                      ELSE IF stored /\ ~s.raised
                      THEN /\ health_data' = s.rows
                           /\ UNCHANGED loop
                           /\ pc' = "analytics"
                           /\ log' = <<"collecting health data", "stored health data">>
                      ELSE /\ loop' = "raised"
                           /\ log' = <<"collecting health data">>
                           /\ UNCHANGED <<health_data, pc>>
    /\ UNCHANGED <<client_id, client_filter, operational_data, interrupted, collected, txn,
                   cursor, atCycleStart, results, query, statusVars>>

NextHealth == TestHealthCollection \/ GetServiceAnalytics

SpecHealth == InitHealth /\ [][NextHealth]_vars

(***************************************************************************)
(* Properties.                                                             *)
(***************************************************************************)
Logged(message) == \E i \in 1..Len(log) : log[i] = message

Stopped == loop # "running"

Pauses == {"sleep_interval", "sleep_backoff"}

\* C1: no failure of a collection cycle ends the monitoring loop: whenever
\* the loop has ended, a KeyboardInterrupt was delivered.
C1_LoopEndsOnlyOnCancellation == Stopped => interrupted

\* a failure was caught at the cycle boundary after rows had been stored,
\* and the loop is still running
C1_Witness ==
    /\ Running /\ ~interrupted
    /\ pc = "sleep_backoff" /\ Logged("loop error")
    /\ operational_data # <<>>

\* C2: the operational_data table holds at most one row for each
\* (service_id, client_id, request_timestamp); stated for the rows that have
\* a request timestamp, so that no NULL is part of a key.
C2_OneRowPerNaturalKey ==
    \A i, j \in 1..Len(operational_data) :
        (i # j /\ operational_data[i].request_timestamp # NoneInt)
            => NaturalKey(operational_data[i]) # NaturalKey(operational_data[j])

\* C3 as stated: the loop stops only between cycles or in a pause, never at
\* a line inside a cycle.
C3_StopsOnlyBetweenCycles == Stopped => pc \in Pauses \cup {FirstStep}

\* C3 as amended: a stop signal ends the loop at the line it arrives at, also
\* inside a cycle: from that step on the position and both tables stay as
\* they are, and the loop never runs again.
C3_StopSignalEndsLoopAtOnce ==
    [][/\ (~interrupted /\ interrupted')
            => (Stopped' /\ txn' = <<>> /\ UNCHANGED <<pc, operational_data, health_data>>)
       /\ Stopped => UNCHANGED <<pc, loop, txn, operational_data, health_data>>]_vars

\* the loop was stopped while a network call was in flight
C3_Witness == Stopped /\ pc \in {"post_operational", "post_health"}

TransportOrParseErrors ==
    {"operational request error", "operational status error", "operational parse error",
     "health request error", "health status error", "health parse error"}

\* C4 as stated: a cycle with a transport or parse failure in either step
\* ends in the backoff pause, a cycle without failure ends in the
\* inter-cycle pause, and the loop stops only on cancellation.
C4_TransportFailureBacksOff ==
    /\ pc = "sleep_interval" => \A m \in TransportOrParseErrors \cup {"loop error"} : ~Logged(m)
    /\ pc = "sleep_backoff" => Logged("loop error")
    /\ Stopped => interrupted

\* C4 as amended: the backoff pause is entered only from the lines where an
\* exception escapes collect_operational_data or collect_health_data (the
\* request builders and the stores), never from a network call, whose
\* transport and parse failures come back as an empty result to the line
\* after the call; the inter-cycle pause is entered only from the end of the
\* health step; a cycle starts only from a pause; Stopped is entered only
\* with a KeyboardInterrupt and is never left.
C4_SchedulerStateMachine ==
    [][/\ (pc' = "sleep_backoff" /\ pc # "sleep_backoff")
            => pc \in {"collect_operational_data", "collect_health_data",
                       "store_operational", "store_health"}
       /\ pc = "post_operational" => pc' \in {"post_operational", "operational_returned"}
       /\ pc = "post_health" => pc' \in {"post_health", "health_returned"}
       /\ (pc' = "sleep_interval" /\ pc # "sleep_interval")
            => pc \in {"health_returned", "store_health"}
       /\ (pc' = "collect_operational_data" /\ pc # "collect_operational_data")
            => pc \in Pauses
       /\ (Stopped' /\ ~Stopped) => (interrupted' /\ ~interrupted)
       /\ Stopped => (Stopped' /\ pc' = pc)]_vars

\* a cycle whose operational call failed in transport has gone on to the
\* inter-cycle pause
C4_Witness ==
    /\ Running /\ pc = "sleep_interval"
    /\ Logged("operational request error")
    /\ ~Logged("loop error")

\* the place of a message in the order of a cycle's steps
Rank(message) ==
    CASE message = "collecting operational data" -> 1
      [] message \in {"operational request error", "operational status error",
                      "operational parse error"} -> 2
      [] message \in {"stored operational data", "no operational data"} -> 3
      [] message = "collecting health data" -> 4
      [] message \in {"health request error", "health status error",
                      "health parse error"} -> 5
      [] message \in {"stored health data", "no health data"} -> 6
      [] message = "loop error" -> 7

\* C5: the steps of a cycle happen in the order acquire operational data,
\* persist it, acquire health data, persist it, each at most once; a table
\* changes only in its own persist step; and a cycle begins only when the
\* one before it has left nothing in progress.
C5_StepsInOrder ==
    /\ \A i, j \in 1..Len(log) : i < j => Rank(log[i]) < Rank(log[j])
    /\ Logged("collecting health data") =>
          /\ log[1] = "collecting operational data"
          /\ Logged("stored operational data") \/ Logged("no operational data")
    /\ operational_data # atCycleStart.operational_data => Logged("stored operational data")
    /\ Logged("stored operational data") => Logged("collecting operational data")
    /\ health_data # atCycleStart.health_data => Logged("stored health data")
    /\ Logged("stored health data") => Logged("collecting health data")
    /\ pc = "collect_operational_data" =>
          (txn = <<>> /\ collected = <<>> /\ health = EmptyDict /\ cursor = 0
           /\ (log = <<>> \/ Stopped))

\* a cycle has done all four steps
C5_Witness ==
    /\ pc = "sleep_interval"
    /\ Logged("stored operational data") /\ Logged("stored health data")
    /\ atCycleStart.operational_data # <<>>

\* C6: in a cycle whose two network calls both find the network unreachable
\* (connection refused or timed out), each call returns an empty result to
\* its caller, no exception reaches the loop, both tables are as they were
\* when the cycle began, and the cycle ends in the inter-cycle pause, from
\* which the next cycle starts.
C6_UnreachableNetworkCycle ==
    /\ [][(/\ Running /\ pc = "post_health"
            /\ Logged("operational request error")
            /\ response'.kind \in {"ConnectionError", "Timeout"})
              => /\ pc' = "health_returned"
                 /\ health' = EmptyDict
                 /\ Logged("health request error")']_vars
    /\ []((Logged("operational request error") /\ Logged("health request error")) =>
            /\ ~Logged("loop error")
            /\ pc \in {"health_returned", "sleep_interval"}
            /\ operational_data = atCycleStart.operational_data
            /\ health_data = atCycleStart.health_data
            /\ health = EmptyDict /\ collected = <<>> /\ txn = <<>>
            /\ Running => ENABLED (HealthReturned \/ NextCycle))

\* such a cycle has reached its pause, with rows of an earlier cycle in store
C6_Witness ==
    /\ Logged("operational request error") /\ Logged("health request error")
    /\ Running /\ pc = "sleep_interval"
    /\ operational_data # <<>>

Stores == {"store_operational", "store_health"}

\* C7: an exception raised while a batch is being stored is caught at the
\* cycle boundary: nothing of the batch is committed, no further step of the
\* cycle runs, the loop keeps running in the backoff pause, and from the
\* backoff pause the only step of the loop is the start of the next cycle.
C7_PersistenceFailureEndsCycle ==
    [][/\ (pc \in Stores /\ Running /\ ~interrupted' /\ log' # log /\ Logged("loop error")')
            => /\ pc' = "sleep_backoff"
               /\ Running'
               /\ txn' = <<>>
               /\ UNCHANGED <<operational_data, health_data>>
       /\ (pc = "sleep_backoff" /\ pc' # pc) => pc' = FirstStep
       /\ (pc \in Stores /\ pc' # pc /\ ~Logged("loop error")')
            => (pc' \in {AfterOperational, AfterHealth} /\ txn' = <<>>)]_vars

\* the store of the operational batch failed: the cycle ended without its
\* health step, and the loop is in the backoff pause
C7_Witness ==
    /\ Running /\ pc = "sleep_backoff"
    /\ log = <<"collecting operational data", "loop error">>
    /\ operational_data = atCycleStart.operational_data

\* C8: when the network call of get_operational_data or get_health_data
\* ends in a transport failure (refused, timed out, status not 2xx), the
\* function returns to its caller, with an empty list or an empty dict.
C8_TransportFailureGivesEmptyResult ==
    TransportFailure(response) =>
        \/ pc = "operational_returned" /\ collected = <<>>
        \/ pc = "health_returned" /\ health = EmptyDict /\ ~DictTruthy(health)

\* get_health_data has returned from a call that the server answered 500
C8_Witness ==
    /\ pc = "health_returned"
    /\ response.kind = "response" /\ response.status_code = 500
    /\ health = EmptyDict

\* the number of slash-delimited segments of a string
Segments(s) == Cardinality({i \in 1..Len(s) : s[i] = "/"}) + 1

Built == request.serviceCode # "none"

\* an identifier none of whose segments is empty
Proper(s) ==
    /\ s # <<>> /\ s[1] # "/" /\ s[Len(s)] # "/"
    /\ \A i \in 1..(Len(s) - 1) : ~(s[i] = "/" /\ s[i + 1] = "/")

\* C9 as stated: building a request succeeds when the requester identifier
\* and the client filter (if one is given) have at least 2 segments, and
\* fails when one of them has fewer than 2; stated for identifiers that have
\* no empty segment.
C9_TwoSegmentsSuffice ==
    (Built /\ Proper(client_id) /\ (client_filter = NoFilter \/ Proper(client_filter))) =>
        (request.raised <=>
            \/ Segments(client_id) < 2
            \/ /\ request.serviceCode = "getSecurityServerOperationalData"
               /\ client_filter # NoFilter
               /\ Segments(client_filter) < 2)

\* C9 as amended: building a request succeeds exactly when the requester
\* identifier has at least 3 segments and, in the operational request, the
\* client filter is absent, empty or has at least 3 segments; the class and
\* the code are the second and the third segment.
C9_ThreeSegmentsNeeded ==
    Built =>
        /\ request.raised <=>
              \/ Segments(client_id) < 3
              \/ /\ request.serviceCode = "getSecurityServerOperationalData"
                 /\ client_filter \notin {NoFilter, <<>>}
                 /\ Segments(client_filter) < 3
        /\ ~request.raised =>
              /\ request.client.memberClass = split(client_id)[2]
              /\ request.client.memberCode = split(client_id)[3]

\* an operational request was built from a requester and a filter of 3
\* segments each
C9_Witness ==
    /\ Built /\ ~request.raised
    /\ request.serviceCode = "getSecurityServerOperationalData"
    /\ Segments(client_id) = 3
    /\ client_filter # NoFilter /\ Segments(client_filter) = 3

\* C10: no step deletes or changes a committed row: every row of
\* operational_data and of health_data is, after any step, still at its
\* place with the same values.
C10_TablesAppendOnly ==
    [][/\ Len(operational_data') >= Len(operational_data)
       /\ \A i \in 1..Len(operational_data) : operational_data'[i] = operational_data[i]
       /\ Len(health_data') >= Len(health_data)
       /\ \A i \in 1..Len(health_data) : health_data'[i] = health_data[i]]_vars

\* rows of an earlier cycle are in both tables, a later cycle has added to
\* operational_data, and analytics have been read
C10_Witness ==
    /\ atCycleStart.operational_data # <<>>
    /\ atCycleStart.health_data # <<>>
    /\ Len(operational_data) > Len(atCycleStart.operational_data)
    /\ results # NoResults

\* C11: a health-collection cycle that succeeds adds one health_data row for
\* each service entry of the response, in the order of the response, also
\* when an equal snapshot is already stored; health_data changes in no other
\* step.
C11_HealthAppendUnconditional ==
    [][/\ (pc = "post_health" /\ pc' = "health_returned" /\ health'.hasServices)
            => Len(health'.services) = Len(response'.text.servicesEvents)
       /\ (pc = "store_health" /\ pc' = AfterHealth)
            => /\ Len(health_data') = Len(health_data) + Len(health.services)
               /\ \A i \in 1..Len(health_data) : health_data'[i] = health_data[i]
               /\ \A i \in 1..Len(health.services) :
                     health_data'[Len(health_data) + i] = HealthRow(health.services[i])
       /\ health_data' # health_data
            => (pc = "store_health" /\ pc' = AfterHealth /\ Logged("stored health data")')]_vars

\* two cycles have each stored the same snapshot of one service
C11_Witness ==
    /\ pc = "sleep_interval" /\ Logged("stored health data")
    /\ Len(health_data) = 2 /\ health_data[1] = health_data[2]
    /\ Len(atCycleStart.health_data) = 1

\* C12: no stored operational row has a negative request_duration: the
\* duration of every row of operational_data is absent or at least 0.
C12_NoNegativeDurationStored ==
    \A i \in 1..Len(operational_data) :
        \/ operational_data[i].request_duration = NoneInt
        \/ operational_data[i].request_duration >= 0

\* C13: every record the parser returns has a duration if and only if it has
\* both timestamps, and the duration is the response timestamp minus the
\* request timestamp in whole milliseconds (timestamps are in microseconds).
C13_DurationIsTimestampDifference ==
    \A i \in 1..Len(collected) :
        LET data == collected[i]
        IN  /\ data.request_duration # NoneInt
                <=> (data.request_timestamp # NoneInt /\ data.response_timestamp # NoneInt)
            /\ data.request_duration # NoneInt
                => data.request_duration * 1000
                      = data.response_timestamp - data.request_timestamp

\* a child element that is missing or carries a decimal numeral
NumericOrMissing(text) == text = Absent \/ IsNumeral(text)

\* a record element each of whose numeric children is a numeral and whose
\* succeeded flag, if present, has a text
WellFormedElement(record) ==
    /\ NumericOrMissing(record.requestInTs) /\ NumericOrMissing(record.responseOutTs)
    /\ NumericOrMissing(record.requestSize) /\ NumericOrMissing(record.responseSize)
    /\ record.succeeded # NoText

\* a document was answered with status 200 and parsed
Parsed == response.kind = "response" /\ response.status_code = 200 /\ response.text.wellFormed

\* C14: the parser returns, in document order, one record for each
\* well-formed record element of the document and none for a malformed one,
\* wherever the malformed elements stand and however many they are.
C14_MalformedRecordSkipped ==
    Parsed =>
        LET good == SelectSeq(response.text.records, WellFormedElement)
        IN  /\ Len(collected) = Len(good)
            /\ \A i \in 1..Len(good) : collected[i] = ParseOperationalRecord(good[i]).data

\* a malformed record stood between two well-formed ones, and both of them
\* were returned
C14_Witness ==
    /\ Parsed /\ Len(response.text.records) = 3
    /\ WellFormedElement(response.text.records[1])
    /\ ~WellFormedElement(response.text.records[2])
    /\ WellFormedElement(response.text.records[3])
    /\ response.text.records[1] # response.text.records[3]
    /\ Len(collected) = 2
    /\ collected[1].request_duration # collected[2].request_duration

\* the number a numeral stands for
NumeralValue(text) == (CHOOSE p \in Numerals : p[1] = text)[2]

\* the record has, field by field, the default where the child element is
\* missing and the value of the child element where it is present
DefaultedFieldByField(record, data) ==
    /\ record.serviceXRoadRequestId = Absent => data.service_id = "Unknown"
    /\ record.serviceXRoadRequestId \notin {Absent, NoText}
          => data.service_id = record.serviceXRoadRequestId
    /\ record.clientXRoadRequestId = Absent => data.client_id = "Unknown"
    /\ record.clientXRoadRequestId \notin {Absent, NoText}
          => data.client_id = record.clientXRoadRequestId
    /\ record.requestInTs = Absent => data.request_timestamp = NoneInt
    /\ record.requestInTs # Absent
          => data.request_timestamp = 1000 * NumeralValue(record.requestInTs)
    /\ record.responseOutTs = Absent => data.response_timestamp = NoneInt
    /\ record.responseOutTs # Absent
          => data.response_timestamp = 1000 * NumeralValue(record.responseOutTs)
    /\ record.requestSize = Absent => data.request_size = 0
    /\ record.requestSize # Absent => data.request_size = NumeralValue(record.requestSize)
    /\ record.responseSize = Absent => data.response_size = 0
    /\ record.responseSize # Absent => data.response_size = NumeralValue(record.responseSize)
    /\ record.succeeded = Absent => data.success = FALSE
    /\ record.succeeded \in {"true", "TRUE"} => data.success = TRUE
    /\ record.succeeded = "false" => data.success = FALSE

\* C15: every well-formed record element yields a record in which each field
\* has its default exactly when its own child element is missing ("Unknown"
\* for an identifier, 0 for a size, false for the flag, None for a
\* timestamp) and the parsed value of its child element otherwise.
C15_FieldsDefaultedIndependently ==
    Parsed =>
        LET good == SelectSeq(response.text.records, WellFormedElement)
        IN  /\ Len(collected) = Len(good)
            /\ \A i \in 1..Len(good) : DefaultedFieldByField(good[i], collected[i])

\* a record without service identifier and request size, with its other
\* children present, was parsed
C15_Witness ==
    /\ Parsed /\ Len(response.text.records) = 1 /\ Len(collected) = 1
    /\ response.text.records[1].serviceXRoadRequestId = Absent
    /\ response.text.records[1].requestSize = Absent
    /\ collected[1].service_id = "Unknown" /\ collected[1].request_size = 0
    /\ collected[1].client_id = "cliX" /\ collected[1].response_size = 20
    /\ collected[1].request_timestamp = 1000000 /\ collected[1].success

\* C16: a response document that is not well-formed makes the operational
\* call return an empty list to collect_operational_data, without an
\* exception reaching the loop; the cycle goes on, and for the rest of the
\* cycle operational_data is as it was when the cycle began.
C16_MalformedDocumentGivesNothing ==
    /\ [][(/\ Running /\ pc = "post_operational"
            /\ response'.kind = "response"
            /\ response'.status_code = 200
            /\ ~response'.text.wellFormed)
              => /\ pc' = "operational_returned"
                 /\ collected' = <<>>
                 /\ log' = Append(log, "operational parse error")]_vars
    /\ [](Logged("operational parse error") =>
            /\ collected = <<>>
            /\ operational_data = atCycleStart.operational_data
            /\ pc \notin {"post_operational", "store_operational"}
            /\ (pc = "operational_returned" /\ Running) => ENABLED OperationalReturned)

\* after a malformed operational document the cycle has gone on to its
\* health step, with the rows of an earlier cycle still in store
C16_Witness ==
    /\ Running /\ pc = "post_health"
    /\ Logged("operational parse error") /\ ~Logged("loop error")
    /\ operational_data # <<>>

\* the last analytics call asked for one service
PerServiceQuery == query # NoQuery /\ query.service_id \notin {NoneStr, ""}

\* the rows of the table of service q.service_id whose request time lies
\* after q.since
RowsInWindow(table, q) ==
    {i \in 1..Len(table) :
        /\ table[i].service_id = q.service_id
        /\ table[i].request_timestamp # NoneInt
        /\ table[i].request_timestamp > q.since}

\* C17: a summary of one service over a window without records has 0 in
\* each of its three counts and no value in its duration aggregates.
C17_EmptyWindowZeroCounts ==
    (PerServiceQuery /\ RowsInWindow(operational_data, query) = {}) =>
        /\ Len(results) = 1
        /\ results[1].total_requests = 0
        /\ results[1].successful_requests = SqlNum(0, 1)
        /\ results[1].failed_requests = SqlNum(0, 1)
        /\ results[1].avg_duration = SqlNull
        /\ results[1].min_duration = SqlNull
        /\ results[1].max_duration = SqlNull

RECURSIVE SumOfDurations(_, _)
SumOfDurations(table, rows) ==
    IF rows = {} THEN 0
    ELSE LET i == CHOOSE j \in rows : TRUE
         IN  table[i].request_duration + SumOfDurations(table, rows \ {i})

\* summary is the summary of the rows of the window: each of them is counted
\* in the total and in one of the two other counts, and the average, the
\* least and the greatest duration are those of the rows that have one
SummaryOfWindow(summary, table, q) ==
    LET window == RowsInWindow(table, q)
        timed == {i \in window : table[i].request_duration # NoneInt}
    IN  /\ summary.total_requests = Cardinality(window)
        /\ window # {} =>
              /\ summary.successful_requests
                    = SqlNum(Cardinality({i \in window : table[i].success = 1}), 1)
              /\ summary.failed_requests
                    = SqlNum(Cardinality({i \in window : table[i].success = 0}), 1)
              /\ summary.successful_requests.num + summary.failed_requests.num
                    = summary.total_requests
        /\ timed = {} =>
              /\ summary.avg_duration = SqlNull
              /\ summary.min_duration = SqlNull
              /\ summary.max_duration = SqlNull
        /\ timed # {} =>
              /\ ~summary.avg_duration.null
              /\ summary.avg_duration.num * Cardinality(timed)
                    = summary.avg_duration.den * SumOfDurations(table, timed)
              /\ ~summary.min_duration.null /\ summary.min_duration.den = 1
              /\ \E i \in timed : table[i].request_duration = summary.min_duration.num
              /\ \A i \in timed : table[i].request_duration >= summary.min_duration.num
              /\ ~summary.max_duration.null /\ summary.max_duration.den = 1
              /\ \E i \in timed : table[i].request_duration = summary.max_duration.num
              /\ \A i \in timed : table[i].request_duration <= summary.max_duration.num

\* C18: every per-service analytics call (a step that sets query to new
\* arguments) returns one summary, in which each
\* row of the service in the window is counted in total_requests and in
\* successful_requests or failed_requests, also a row without duration, and
\* avg_duration, min_duration and max_duration are the mean, the least and
\* the greatest of the durations of the rows that have one.
C18_NullDurationCountedNotAveraged ==
    [][(query' # query /\ PerServiceQuery')
          => /\ Len(results') = 1
             /\ SummaryOfWindow(results'[1], operational_data, query')]_vars

\* the summary of two successes of 100 ms and 300 ms and one failure without
\* duration: 3, 2, 1, 200, 100 and 300
C18_Witness ==
    /\ PerServiceQuery /\ Len(operational_data) = 3
    /\ \E i \in 1..3 : operational_data[i].request_duration = NoneInt
    /\ results[1].total_requests = 3
    /\ results[1].successful_requests = SqlNum(2, 1)
    /\ results[1].failed_requests = SqlNum(1, 1)
    /\ results[1].avg_duration = SqlNum(400, 2)
    /\ results[1].min_duration = SqlNum(100, 1)
    /\ results[1].max_duration = SqlNum(300, 1)

\* C19: what another connection reads is the committed table.  While a batch
\* is being stored the committed table has none of its rows; a table
\* changes only in the commit that ends the store, which adds a row for
\* every item of the batch; and a store that fails or is interrupted
\* part-way leaves both tables as they were.
C19_AppendAtomic ==
    /\ [](/\ pc = "store_operational" => operational_data = atCycleStart.operational_data
          /\ pc = "store_health" => health_data = atCycleStart.health_data)
    /\ [][/\ (operational_data' # operational_data) =>
                (/\ pc = "store_operational" /\ pc' = AfterOperational
                 /\ Len(operational_data') = Len(operational_data) + Len(collected)
                 /\ \A i \in 1..Len(operational_data) :
                       operational_data'[i] = operational_data[i]
                 /\ \A i \in 1..Len(collected) :
                       operational_data'[Len(operational_data) + i]
                          = OperationalRow(collected[i]))
          /\ (health_data' # health_data) =>
                (/\ pc = "store_health" /\ pc' = AfterHealth
                 /\ Len(health_data') = Len(health_data) + Len(health.services))
          /\ (pc \in Stores /\ (pc' = "sleep_backoff" \/ Stopped')) =>
                (txn' = <<>> /\ UNCHANGED <<operational_data, health_data>>)]_vars

\* a batch of two records is half stored: the open transaction has one row
\* that the committed table does not have
C19_Witness ==
    /\ Running /\ pc = "store_operational"
    /\ Len(collected) = 2 /\ cursor = 1
    /\ Len(txn) = Len(operational_data) + 1

\* C20: every current-status read, by the dashboard or by the agent,
\* returns for each (subsystem, service) pair that has a saved check exactly
\* one row, the check of the pair that was saved last.
C20_OneLatestRowPerPair ==
    [][(current_status' # current_status) =>
          \A i \in 1..Len(service_status) :
              LET ofPair == {r \in current_status'.rows :
                                /\ r.subsystem = service_status[i].subsystem
                                /\ r.service = service_status[i].service}
              IN  /\ Cardinality(ofPair) = 1
                  /\ \A r \in ofPair :
                        \A j \in 1..Len(service_status) :
                            (/\ service_status[j].subsystem = r.subsystem
                             /\ service_status[j].service = r.service) => j <= r.id]_vars

\* a service entry each of whose numeric children is missing or a numeral
WellFormedService(service_event) ==
    LET stats == service_event.lastPeriodStatistics
    IN  /\ NumericOrMissing(service_event.lastSuccessfulRequestTimestamp)
        /\ NumericOrMissing(service_event.lastUnsuccessfulRequestTimestamp)
        /\ stats.present =>
              /\ NumericOrMissing(stats.successfulRequestCount)
              /\ NumericOrMissing(stats.unsuccessfulRequestCount)
              /\ \/ stats.requestMinDuration = Absent
                 \/ \E p \in Decimals : p[1] = stats.requestMinDuration

\* a health document was answered with status 200 and parsed, and its two
\* general values are missing or numerals
HealthParsed ==
    /\ response.kind = "response" /\ response.status_code = 200
    /\ response.text.wellFormed
    /\ NumericOrMissing(response.text.monitoringStartupTimestamp)
    /\ NumericOrMissing(response.text.statisticsPeriodSeconds)

\* C21: after a health collection has returned, every well-formed service
\* entry of the response is among the returned services, whatever malformed
\* entries stand beside it, and an entry without a statistics block is
\* stored with both counts 0 and average duration 0.0.
C21_MalformedEntryKeepsOthers ==
    (pc = "analytics" /\ HealthParsed) =>
        \A i \in 1..Len(response.text.servicesEvents) :
            LET e == response.text.servicesEvents[i]
                code == IF e.serviceCode = Absent THEN NoneStr ELSE e.serviceCode
            IN  WellFormedService(e) =>
                   /\ \E j \in 1..Len(health.services) :
                         health.services[j].serviceCode = code
                   /\ ~e.lastPeriodStatistics.present =>
                         \E k \in 1..Len(health_data) :
                            /\ health_data[k].service_code = code
                            /\ health_data[k].successful_count = 0
                            /\ health_data[k].unsuccessful_count = 0
                            /\ health_data[k].avg_duration = 0

\* the operational call of the current cycle failed in transport or in the
\* parse of its document
OperationalFailed ==
    \/ Logged("operational request error")
    \/ Logged("operational status error")
    \/ Logged("operational parse error")

\* C22: a transport or document-parse failure of the operational call comes
\* back to the cycle as an empty result; the cycle goes on to its health
\* step, which builds its request and makes its call; in such a cycle the
\* backoff pause is entered only from the store of the health batch, and in
\* every cycle only where an exception escapes collect_operational_data or
\* collect_health_data (a request builder or a store); from either pause the
\* next step is the start of the next cycle.
C22_OperationalFailureKeepsCycle ==
    [][/\ (/\ pc = "post_operational" /\ pc' # pc
           /\ \/ TransportFailure(response')
              \/ (/\ response'.kind = "response" /\ response'.status_code = 200
                  /\ ~response'.text.wellFormed))
            => (pc' = "operational_returned" /\ collected' = <<>> /\ OperationalFailed')
       /\ (OperationalFailed /\ pc = "operational_returned" /\ pc' # pc)
            => (pc' = "collect_health_data" /\ ~Logged("loop error")')
       /\ (OperationalFailed /\ pc = "collect_health_data" /\ pc' # pc)
            => (pc' = "post_health" /\ Logged("collecting health data")')
       /\ (OperationalFailed /\ pc' = "sleep_backoff" /\ pc # pc')
            => pc = "store_health"
       /\ (pc' = "sleep_backoff" /\ pc # pc')
            => (request'.raised \/ pc \in Stores)
       /\ (OperationalFailed /\ pc \in Pauses /\ pc' # pc)
            => pc' = FirstStep]_vars

\* a cycle whose operational document did not parse has stored its health
\* batch and reached the inter-cycle pause
C22_Witness ==
    /\ Running /\ pc = "sleep_interval"
    /\ Logged("operational parse error")
    /\ Logged("stored health data")
    /\ ~Logged("loop error")

\* the rows of the table that belong to service_id
RowsOfService(table, service_id) ==
    {i \in 1..Len(table) : table[i].service_id = service_id}

\* C23: a collection that returns has stored, in the order of the response,
\* one row for every record the parser returned; and every summary of a
\* service over the window that starts at the epoch counts every stored row
\* of the service in its total, also a row that was parsed without a
\* request timestamp.
C23_ReturnedRecordsStoredAndCounted ==
    [][/\ (pc = "test_collection" /\ pc' = "analytics") =>
             /\ Len(operational_data') = Len(operational_data) + Len(collected')
             /\ \A i \in 1..Len(collected') :
                   operational_data'[Len(operational_data) + i] = OperationalRow(collected'[i])
       /\ (query' # query /\ PerServiceQuery' /\ query'.since = 0) =>
             /\ Len(results') = 1
             /\ results'[1].total_requests
                   = Cardinality(RowsOfService(operational_data, query'.service_id))]_vars
====
